---- MODULE Spec2Model ----
(***************************************************************************)
(* Numeric marshalling between native integers / floats and the objects   *)
(* of the Python runtime (src/objects/num.rs), together with the tuple    *)
(* operations exercised by pyo3-benches/benches/bench_tuple.rs.            *)
(*                                                                         *)
(* TLC's integers are 32 bits wide, so the native widths 8/16/32/64 and    *)
(* the float significands 24/53 are scaled down to W8 < W16 < F32Mant <    *)
(* W32 < F64Mant < W64, which keeps every ordering the code relies on.     *)
(* A float value is held as a count of halves (val = 2*x), so that 2.5     *)
(* and the truncation of a float to an integer are representable.          *)
(***************************************************************************)
EXTENDS Integers, Sequences, FiniteSets, TLC

\* ---------------------------------------------------------------- bounds
W8 == 2
W16 == 3
W32 == 5
W64 == 7
F32Mant == 4
F64Mant == 6
MaxObjs == 2
MaxLen == 2

VARIABLES platform, heap, pending, owned, last, tuple, items, cursor

vars == <<platform, heap, pending, owned, last, tuple, items, cursor>>

\* ------------------------------------------------------ native integer types
RECURSIVE Pow2(_)
Pow2(n) == IF n = 0 THEN 1 ELSE 2 * Pow2(n - 1)

Abs(x) == IF x < 0 THEN -x ELSE x

\* cfg(target_pointer_width, target_os): the three build targets
Platforms == {"LP64", "ILP32", "LLP64"}

IntTypes == {"i8", "u8", "i16", "u16", "i32", "u32", "i64", "u64", "isize", "usize"}

FloatTypes == {"f32", "f64"}

\* std::os::raw::c_long
CLongBits(p) == IF p = "LP64" THEN W64 ELSE W32

PtrBits(p) == IF p = "ILP32" THEN W32 ELSE W64

Signed(T) == T \in {"i8", "i16", "i32", "i64", "isize", "c_long"}

Bits(T, p) ==
    CASE T \in {"i8", "u8"} -> W8
      [] T \in {"i16", "u16"} -> W16
      [] T \in {"i32", "u32"} -> W32
      [] T \in {"i64", "u64"} -> W64
      [] T \in {"isize", "usize"} -> PtrBits(p)
      [] T = "c_long" -> CLongBits(p)

MinOf(T, p) == IF Signed(T) THEN -Pow2(Bits(T, p) - 1) ELSE 0

MaxOf(T, p) == IF Signed(T) THEN Pow2(Bits(T, p) - 1) - 1 ELSE Pow2(Bits(T, p)) - 1

InRange(v, T, p) == MinOf(T, p) <= v /\ v <= MaxOf(T, p)

RangeOf(T, p) == MinOf(T, p) .. MaxOf(T, p)

\* `x as T`: the wrapping primitive cast
AsCast(v, T, p) ==
    LET m == Pow2(Bits(T, p))
        u == v % m
    IN  IF Signed(T) /\ u >= m \div 2 THEN u - m ELSE u

\* num_traits::cast::cast::<From, T>: Some(v) when v fits T, None otherwise
CheckedCast(v, T, p) == IF InRange(v, T, p) THEN [some |-> TRUE, v |-> v] ELSE [some |-> FALSE, v |-> 0]

\* u32 handed to int_fits_c_long! on every target
Strategy_u32_c_long(T, p) ==
    CASE T \in {"i8", "u8", "i16", "u16", "i32", "u32"} -> "c_long"
      [] T = "i64" -> IF p = "LP64" THEN "c_long" ELSE "explicit"
      [] T = "isize" -> IF p = "LP64" THEN "c_long" ELSE "larger"
      [] T = "usize" -> "larger"
      [] T = "u64" -> "explicit"

\* the macro instantiated for each type on each target
Strategy(T, p) ==
    CASE T \in {"i8", "u8", "i16", "u16", "i32"} -> "c_long"
      [] T = "u32" -> IF p = "LP64" THEN "c_long" ELSE "larger"
      [] T = "i64" -> IF p = "LP64" THEN "c_long" ELSE "explicit"
      [] T = "isize" -> IF p = "LP64" THEN "c_long" ELSE "larger"
      [] T = "usize" -> "larger"
      [] T = "u64" -> "explicit"

\* usize widened to the signed 64-bit type
LargerType_usize_i64(T) ==
    CASE T = "u32" -> "u64"
      [] T = "isize" -> "i64"
      [] T = "usize" -> "i64"

LargerType(T) ==
    CASE T = "u32" -> "u64"
      [] T = "isize" -> "i64"
      [] T = "usize" -> "u64"

\* ------------------------------------------------------------------ floats
\* number of binary digits of a non-negative integer
RECURSIVE BitLen(_)
BitLen(n) == IF n = 0 THEN 0 ELSE 1 + BitLen(n \div 2)

\* round an integer (or a count of halves) to `mant` significant bits,
\* nearest, ties to even
RoundSig(h, mant) ==
    LET a == Abs(h)
        bl == BitLen(a)
    IN  IF bl <= mant THEN h
        ELSE LET unit == Pow2(bl - mant)
                 q == a \div unit
                 r == a % unit
                 up == (2 * r > unit) \/ (2 * r = unit /\ q % 2 = 1)
                 m == (IF up THEN q + 1 ELSE q) * unit
             IN  IF h < 0 THEN -m ELSE m

\* truncation toward zero of a float held in halves
Trunc(h) == IF h >= 0 THEN h \div 2 ELSE -((-h) \div 2)

IsIntegral(h) == h % 2 = 0

\* ------------------------------------------------- the runtime's object heap
NULL == 0

Handles == 1 .. MaxObjs

\* `by` tells who asked for the object: this core, or the interpreter
FreeSlot == [kind |-> "free", val |-> 0, rc |-> 0, by |-> "none"]

NewObj(kind, val) == [kind |-> kind, val |-> val, rc |-> 1, by |-> "core"]

Live(hp, h) == h \in Handles /\ hp[h].kind # "free"

FreeHandles(hp) == {h \in Handles : hp[h].kind = "free"}

LowestFree(hp) == CHOOSE h \in FreeHandles(hp) : \A g \in FreeHandles(hp) : h <= g

\* an environment threads the heap, the thread's pending error, the log of
\* runtime calls and the number of PyErr::fetch calls through one operation
Env(hp, pe) == [heap |-> hp, pending |-> pe, calls |-> <<>>, fetches |-> 0]

\* a runtime call returns: the heap and the pending error it leaves, and the
\* call logged with its argument, its return value and the error pending after
Call(env, f, h, hp, pe, ret) ==
    [env |-> [heap |-> hp, pending |-> pe, fetches |-> env.fetches,
              calls |-> Append(env.calls, [f |-> f, h |-> h, ret |-> ret, err |-> pe])],
     ret |-> ret]

\* allocation of a new object: a new reference, or NULL with MemoryError set
Alloc(env, f, arg, obj, ok) ==
    IF ok /\ FreeHandles(env.heap) # {}
    THEN LET h == LowestFree(env.heap)
         IN  Call(env, f, arg, [env.heap EXCEPT ![h] = obj], env.pending, h)
    ELSE Call(env, f, arg, env.heap, "MemoryError", NULL)

Py_DECREF(env, h) ==
    IF env.heap[h].rc <= 1
    THEN [env EXCEPT !.heap[h] = FreeSlot]
    ELSE [env EXCEPT !.heap[h].rc = @ - 1]

\* ------------------------------------------------------ runtime constructors
PyLong_FromLong(env, v, p, ok) ==
    Alloc(env, "PyLong_FromLong", NULL, NewObj("int", AsCast(v, "c_long", p)), ok)

PyLong_FromLongLong(env, v, p, ok) ==
    Alloc(env, "PyLong_FromLongLong", NULL, NewObj("int", AsCast(v, "i64", p)), ok)

PyLong_FromUnsignedLongLong(env, v, p, ok) ==
    Alloc(env, "PyLong_FromUnsignedLongLong", NULL, NewObj("int", AsCast(v, "u64", p)), ok)

PyFloat_FromDouble(env, v, ok) ==
    Alloc(env, "PyFloat_FromDouble", NULL, NewObj("float", v), ok)

\* -------------------------------------------------------- runtime accessors
PyLong_Check(env, h) == env.heap[h].kind = "int"

\* the integer an object converts to through its __int__ slot
IntOf(o) == IF o.kind = "int" THEN o.val ELSE Trunc(o.val)

\* reads a C long; a float is converted through __int__, to an int object the
\* runtime allocates and releases within the call; -1 with an error set on
\* failure
PyLong_AsLong(env, h, p, ok) ==
    LET o == env.heap[h]
    IN  CASE o.kind = "float" /\ ~ok -> Call(env, "PyLong_AsLong", h, env.heap, "MemoryError", -1)
          [] o.kind \in {"int", "float"} /\ (o.kind = "int" \/ ok) ->
                IF InRange(IntOf(o), "c_long", p)
                THEN Call(env, "PyLong_AsLong", h, env.heap, env.pending, IntOf(o))
                ELSE Call(env, "PyLong_AsLong", h, env.heap, "OverflowError", -1)
          [] OTHER -> Call(env, "PyLong_AsLong", h, env.heap, "TypeError", -1)

\* reads a C long long, as PyLong_AsLong does a C long
PyLong_AsLongLong(env, h, p, ok) ==
    LET o == env.heap[h]
    IN  CASE o.kind = "float" /\ ~ok -> Call(env, "PyLong_AsLongLong", h, env.heap, "MemoryError", -1)
          [] o.kind \in {"int", "float"} /\ (o.kind = "int" \/ ok) ->
                IF InRange(IntOf(o), "i64", p)
                THEN Call(env, "PyLong_AsLongLong", h, env.heap, env.pending, IntOf(o))
                ELSE Call(env, "PyLong_AsLongLong", h, env.heap, "OverflowError", -1)
          [] OTHER -> Call(env, "PyLong_AsLongLong", h, env.heap, "TypeError", -1)

\* reads a C unsigned long long; (unsigned long long)-1 with an error set on
\* failure; an object that is no int is a TypeError
PyLong_AsUnsignedLongLong(env, h, p) ==
    LET o == env.heap[h]
    IN  IF o.kind = "int"
        THEN IF InRange(o.val, "u64", p)
             THEN Call(env, "PyLong_AsUnsignedLongLong", h, env.heap, env.pending, o.val)
             ELSE Call(env, "PyLong_AsUnsignedLongLong", h, env.heap, "OverflowError", MaxOf("u64", p))
        ELSE Call(env, "PyLong_AsUnsignedLongLong", h, env.heap, "TypeError", MaxOf("u64", p))

\* reads a C double (in halves; an int through __float__, rounded to the
\* significand); -1.0 with an error set on failure
PyFloat_AsDouble(env, h) ==
    LET o == env.heap[h]
    IN  CASE o.kind = "float" -> Call(env, "PyFloat_AsDouble", h, env.heap, env.pending, o.val)
          [] o.kind = "int" ->
                Call(env, "PyFloat_AsDouble", h, env.heap, env.pending, RoundSig(2 * o.val, F64Mant))
          [] OTHER -> Call(env, "PyFloat_AsDouble", h, env.heap, "TypeError", -2)

\* int(o): a new reference to an int object, or NULL with an error set
PyNumber_Long(env, h, ok) ==
    LET o == env.heap[h]
    IN  CASE o.kind = "int" ->
                Call(env, "PyNumber_Long", h, [env.heap EXCEPT ![h].rc = @ + 1], env.pending, h)
          [] o.kind = "float" -> Alloc(env, "PyNumber_Long", h, NewObj("int", Trunc(o.val)), ok)
          [] OTHER -> Call(env, "PyNumber_Long", h, env.heap, "TypeError", NULL)

\* ------------------------------------------------------------ error bridge
Ok(v) == [ok |-> TRUE, val |-> v, err |-> "none", src |-> "none"]

Err(kind, src) == [ok |-> FALSE, val |-> 0, err |-> kind, src |-> src]

\* PyErr::occurred: peeks at the pending error
occurred(env) == env.pending # "none"

\* PyErr::fetch: takes the pending error and clears it
fetch(env) ==
    [env |-> [env EXCEPT !.pending = "none", !.fetches = @ + 1],
     err |-> Err(env.pending, "fetched")]

\* PyErr::new_lazy_init(OverflowError): touches no runtime state
overflow_error == Err("OverflowError", "lazy")

\* PyPtr::from_owned_ptr_or_panic: NULL fails the operation (the runtime's
\* error is consumed by the failure); a handle is wrapped as it is
from_owned_ptr_or_panic(r) ==
    IF r.ret = NULL
    THEN [env |-> [r.env EXCEPT !.pending = "none"], ok |-> FALSE, h |-> NULL]
    ELSE [env |-> r.env, ok |-> TRUE, h |-> r.ret]

\* ------------------------------------------------------ native -> foreign
\* PyFloat::new
PyFloat_new(env, val, ok) == from_owned_ptr_or_panic(PyFloat_FromDouble(env, val, ok))

\* the handle wrapped as a borrowed one: the reference count is raised
int_fits_c_long_to_object_borrowed(env, v, p, ok) ==
    LET r == from_owned_ptr_or_panic(PyLong_FromLong(env, AsCast(v, "c_long", p), p, ok))
    IN  IF r.ok THEN [r EXCEPT !.env.heap[r.h].rc = @ + 1] ELSE r

\* int_fits_c_long!: ToPyObject
int_fits_c_long_to_object(env, v, p, ok) ==
    from_owned_ptr_or_panic(PyLong_FromLong(env, AsCast(v, "c_long", p), p, ok))

\* int_convert_u64_or_i64!: ToPyObject
int_convert_to_object(env, T, v, p, ok) ==
    from_owned_ptr_or_panic(
        IF T = "i64" THEN PyLong_FromLongLong(env, v, p, ok)
        ELSE PyLong_FromUnsignedLongLong(env, v, p, ok))

RECURSIVE to_object(_, _, _, _, _)

\* int_fits_larger_int!: ToPyObject
int_fits_larger_int_to_object(env, T, v, p, ok) ==
    to_object(env, LargerType(T), AsCast(v, LargerType(T), p), p, ok)

\* ToPyObject::to_object for every numeric type
to_object(env, T, v, p, ok) ==
    CASE T \in FloatTypes -> PyFloat_new(env, v, ok)
      [] T \in IntTypes /\ Strategy(T, p) = "c_long" -> int_fits_c_long_to_object(env, v, p, ok)
      [] T \in IntTypes /\ Strategy(T, p) = "larger" -> int_fits_larger_int_to_object(env, T, v, p, ok)
      [] T \in IntTypes /\ Strategy(T, p) = "explicit" -> int_convert_to_object(env, T, v, p, ok)

\* ------------------------------------------------------ foreign -> native
\* the narrowing done with `as`
int_fits_c_long_extract_wrapping(env, h, T, p, ok) ==
    LET a == PyLong_AsLong(env, h, p, ok)
    IN  IF a.ret = -1 /\ occurred(a.env)
        THEN LET f == fetch(a.env) IN [env |-> f.env, res |-> f.err]
        ELSE [env |-> a.env, res |-> Ok(AsCast(a.ret, T, p))]

\* the pending error reported without PyErr::fetch
int_fits_c_long_extract_unfetched(env, h, T, p, ok) ==
    LET a == PyLong_AsLong(env, h, p, ok)
    IN  IF a.ret = -1 /\ occurred(a.env)
        THEN [env |-> a.env, res |-> Err(a.env.pending, "fetched")]
        ELSE LET c == CheckedCast(a.ret, T, p)
             IN  [env |-> a.env, res |-> IF c.some THEN Ok(c.v) ELSE overflow_error]

\* int_fits_c_long!: extract
int_fits_c_long_extract(env, h, T, p, ok) ==
    LET a == PyLong_AsLong(env, h, p, ok)
    IN  IF a.ret = -1 /\ occurred(a.env)
        THEN LET f == fetch(a.env) IN [env |-> f.env, res |-> f.err]
        ELSE LET c == CheckedCast(a.ret, T, p)
             IN  [env |-> a.env, res |-> IF c.some THEN Ok(c.v) ELSE overflow_error]

\* the sentinel taken for an error without asking PyErr::occurred
err_if_invalid_value_unchecked(env, invalid_value, actual_value) ==
    IF actual_value = invalid_value
    THEN LET f == fetch(env) IN [env |-> f.env, res |-> f.err]
    ELSE [env |-> env, res |-> Ok(actual_value)]

err_if_invalid_value(env, invalid_value, actual_value) ==
    IF actual_value = invalid_value /\ occurred(env)
    THEN LET f == fetch(env) IN [env |-> f.env, res |-> f.err]
    ELSE [env |-> env, res |-> Ok(actual_value)]

\* `!0` of the extracted type
AllOnes(T, p) == AsCast(-1, T, p)

\* $pylong_as_ull_or_ull
pylong_as_ull_or_ull(env, h, T, p, ok) ==
    IF T = "i64" THEN PyLong_AsLongLong(env, h, p, ok) ELSE PyLong_AsUnsignedLongLong(env, h, p)

\* the 64-bit accessor applied to the handle whatever its type
int_convert_extract_no_coercion(env, h, T, p, ok) ==
    LET a == pylong_as_ull_or_ull(env, h, T, p, ok)
    IN  err_if_invalid_value(a.env, AllOnes(T, p), a.ret)

\* the 64-bit accessor applied to the original handle after the coercion
int_convert_extract_wrong_handle(env, h, T, p, ok) ==
    IF PyLong_Check(env, h)
    THEN LET a == pylong_as_ull_or_ull(env, h, T, p, ok)
         IN  err_if_invalid_value(a.env, AllOnes(T, p), a.ret)
    ELSE LET num == PyNumber_Long(env, h, ok)
         IN  IF num.ret = NULL
             THEN LET f == fetch(num.env) IN [env |-> f.env, res |-> f.err]
             ELSE LET a == pylong_as_ull_or_ull(num.env, h, T, p, ok)
                  IN  err_if_invalid_value(a.env, AllOnes(T, p), a.ret)

\* int_convert_u64_or_i64!: extract
int_convert_extract(env, h, T, p, ok) ==
    IF PyLong_Check(env, h)
    THEN LET a == pylong_as_ull_or_ull(env, h, T, p, ok)
         IN  err_if_invalid_value(a.env, AllOnes(T, p), a.ret)
    ELSE LET num == PyNumber_Long(env, h, ok)
         IN  IF num.ret = NULL
             THEN LET f == fetch(num.env) IN [env |-> f.env, res |-> f.err]
             ELSE LET a == pylong_as_ull_or_ull(num.env, num.ret, T, p, ok)
                  IN  err_if_invalid_value(a.env, AllOnes(T, p), a.ret)

\* the error reported from PyErr::occurred alone, left pending
f64_extract_peek(env, h) ==
    LET a == PyFloat_AsDouble(env, h)
    IN  IF a.ret = -2 /\ occurred(a.env)
        THEN [env |-> a.env, res |-> Err(a.env.pending, "fetched")]
        ELSE [env |-> a.env, res |-> Ok(a.ret)]

\* pyobject_extract!(obj to f64)
f64_extract(env, h) ==
    LET a == PyFloat_AsDouble(env, h)
    IN  IF a.ret = -2 /\ occurred(a.env)
        THEN LET f == fetch(a.env) IN [env |-> f.env, res |-> f.err]
        ELSE [env |-> a.env, res |-> Ok(a.ret)]

\* pyobject_extract!(obj to f32): `as f32` rounds to the narrower significand
f32_extract(env, h) ==
    LET r == f64_extract(env, h)
    IN  IF r.res.ok THEN [env |-> r.env, res |-> Ok(RoundSig(r.res.val, F32Mant))] ELSE r

RECURSIVE extract(_, _, _, _, _)

\* int_fits_larger_int!: extract
int_fits_larger_int_extract(env, h, T, p, ok) ==
    LET r == extract(env, h, LargerType(T), p, ok)
    IN  IF ~r.res.ok THEN r
        ELSE LET c == CheckedCast(r.res.val, T, p)
             IN  [env |-> r.env, res |-> IF c.some THEN Ok(c.v) ELSE overflow_error]

\* FromPyObject::extract for every numeric type
extract(env, h, T, p, ok) ==
    CASE T = "f64" -> f64_extract(env, h)
      [] T = "f32" -> f32_extract(env, h)
      [] T \in IntTypes /\ Strategy(T, p) = "c_long" -> int_fits_c_long_extract(env, h, T, p, ok)
      [] T \in IntTypes /\ Strategy(T, p) = "larger" -> int_fits_larger_int_extract(env, h, T, p, ok)
      [] T \in IntTypes /\ Strategy(T, p) = "explicit" -> int_convert_extract(env, h, T, p, ok)

\* ------------------------------------------------------------- input sets
AllTypes == IntTypes \cup FloatTypes

\* native values handed to to_object in a session: -1 for a signed type, 1 for
\* an unsigned one, 2.5 for a float (in halves)
Sample(T, p) == IF T \in FloatTypes THEN {5} ELSE IF Signed(T) THEN {-1} ELSE {1}

\* objects the interpreter lends in a session: the int 2^64 (int objects have
\* arbitrary precision), the float 2.5, and an object that is no number
ForeignSample ==
    {[kind |-> "int", val |-> MaxOf("u64", "LP64") + 1, rc |-> 1, by |-> "foreign"],
     [kind |-> "float", val |-> 5, rc |-> 1, by |-> "foreign"],
     [kind |-> "other", val |-> 0, rc |-> 1, by |-> "foreign"]}

\* ------------------------------------------------------------------ state
\* the record of the operation that ran last: its inputs, its result, the
\* runtime calls it made, the number of PyErr::fetch calls, the pending error
\* it started with and, for an extraction that follows the conversion of the
\* same object, the native type and value the object was made from
LastRec(op, T, h, arg, res, env, pend0, oT, oV) ==
    [op |-> op, T |-> T, h |-> h, arg |-> arg, res |-> res, calls |-> env.calls,
     fetches |-> env.fetches, pend0 |-> pend0, oT |-> oT, oV |-> oV]

\* the tuple of the benchmarks: not built yet, or its slots' handles
NoTuple == [built |-> FALSE, slots |-> <<>>]

NoLast == LastRec("init", "none", NULL, 0, Ok(0), Env(<<>>, "none"), "none", "none", 0)

TypeOK ==
    /\ platform \in Platforms
    /\ pending \in {"none", "MemoryError", "OverflowError", "TypeError"}
    /\ owned \subseteq Handles
    /\ DOMAIN heap = Handles

Init ==
    /\ platform \in Platforms
    /\ heap = [h \in Handles |-> FreeSlot]
    /\ pending = "none"
    /\ owned = {}
    /\ last = NoLast
    /\ tuple = NoTuple
    /\ items = <<>>
    /\ cursor = 0

\* ---------------------------------------------------------------- actions
\* val.to_object(py): a new Owned Reference, or the failure of the operation
ToObject(T, v, ok) ==
    LET r == to_object(Env(heap, pending), T, v, platform, ok)
    IN  /\ heap' = r.env.heap
        /\ pending' = r.env.pending
        /\ owned' = IF r.ok THEN owned \cup {r.h} ELSE owned
        /\ last' = LastRec("to_object", T, r.h, v,
                           IF r.ok THEN Ok(v) ELSE Err("AllocationError", "panic"),
                           r.env, pending, T, v)
        /\ UNCHANGED <<platform, tuple, items, cursor>>

\* the interpreter lends an object of its own to native code
ForeignObject(o) ==
    /\ FreeHandles(heap) # {}
    /\ LET h == LowestFree(heap)
       IN  /\ heap' = [heap EXCEPT ![h] = o]
           /\ last' = LastRec("foreign", "none", h, 0, Ok(0), Env(<<>>, "none"), pending, "none", 0)
    /\ UNCHANGED <<platform, pending, owned, tuple, items, cursor>>

\* the objects native code holds a reference to, owned or borrowed
Reachable(h) == Live(heap, h) /\ (h \in owned \/ heap[h].by = "foreign")

\* obj.extract::<T>()
Extract(T, h, ok) ==
    /\ Reachable(h)
    /\ LET r == extract(Env(heap, pending), h, T, platform, ok)
           follows == last.op \in {"to_object", "extract"} /\ last.res.ok /\ last.h = h
       IN  /\ heap' = r.env.heap
           /\ pending' = r.env.pending
           /\ last' = LastRec("extract", T, h, 0, r.res, r.env, pending,
                              IF follows THEN last.oT ELSE "none",
                              IF follows THEN last.oV ELSE 0)
    /\ UNCHANGED <<platform, owned, tuple, items, cursor>>

\* an Owned Reference goes out of scope
Drop(h) ==
    /\ h \in owned
    /\ heap' = Py_DECREF(Env(heap, pending), h).heap
    /\ owned' = owned \ {h}
    /\ last' = LastRec("drop", "none", h, 0, Ok(0), Env(<<>>, "none"), pending, "none", 0)
    /\ UNCHANGED <<platform, pending, tuple, items, cursor>>

Next ==
    \/ \E T \in AllTypes : \E v \in Sample(T, platform) : \E ok \in BOOLEAN : ToObject(T, v, ok)
    \/ \E o \in ForeignSample : ForeignObject(o)
    \/ \E T \in AllTypes : \E h \in Handles : \E ok \in BOOLEAN : Extract(T, h, ok)
    \/ \E h \in Handles : Drop(h)

Spec == Init /\ [][Next]_vars

\* --------------------------------------------- single conversions, all values
Mant(T) == IF T = "f32" THEN F32Mant ELSE F64Mant

\* halves from -(2^64 + 1) to 2^64 + 1
FloatSpan == -(2 * Pow2(W64) + 2) .. (2 * Pow2(W64) + 2)

\* every value of a native type (a float: every value of the span the type
\* represents exactly)
NativeRange(T, p) ==
    IF T \in IntTypes THEN RangeOf(T, p)
    ELSE {x \in FloatSpan : RoundSig(x, Mant(T)) = x}

\* every object the interpreter may lend: ints from below i64::MIN to above
\* u64::MAX, floats, and an object that is no number
ForeignAll(p) ==
    [kind : {"int"}, val : (MinOf("i64", p) - 2) .. (MaxOf("u64", p) + 2), rc : {1}, by : {"foreign"}]
        \cup [kind : {"float"}, val : NativeRange("f64", p), rc : {1}, by : {"foreign"}]
        \cup [kind : {"other"}, val : {0}, rc : {1}, by : {"foreign"}]

InitConv ==
    /\ platform \in Platforms
    /\ pending = "none"
    /\ owned = {}
    /\ tuple = NoTuple
    /\ items = <<>>
    /\ cursor = 0
    /\ \/ /\ heap = [h \in Handles |-> FreeSlot]
          /\ \E T \in AllTypes : \E v \in NativeRange(T, platform) :
                last = LastRec("input", T, NULL, v, Ok(0), Env(<<>>, "none"), "none", "none", 0)
       \/ /\ \E o \in ForeignAll(platform) : heap = [h \in Handles |-> IF h = 1 THEN o ELSE FreeSlot]
          /\ last = LastRec("foreign", "none", 1, 0, Ok(0), Env(<<>>, "none"), "none", "none", 0)

\* the native value is converted
ConvToObject ==
    /\ last.op = "input"
    /\ \E ok \in BOOLEAN : ToObject(last.T, last.arg, ok)

\* the object, converted or lent, is extracted once
ConvExtract ==
    /\ last.op \in {"to_object", "foreign"}
    /\ last.h # NULL
    /\ \E T \in AllTypes : \E ok \in BOOLEAN : Extract(T, last.h, ok)

NextConv == ConvToObject \/ ConvExtract

SpecConv == InitConv /\ [][NextConv]_vars

\* ------------------------------------------------------------------ tuples
\* the native items a tuple is built from: usize values, among them 0..LEN
TupleItems(p) == {0, 1, MaxOf("usize", p)}

RECURSIVE SeqsUpTo(_, _)
SeqsUpTo(S, n) ==
    IF n = 0 THEN {<<>>}
    ELSE LET shorter == SeqsUpTo(S, n - 1)
         IN  shorter \cup {Append(q, x) : q \in {r \in shorter : Len(r) = n - 1}, x \in S}

RECURSIVE ReleaseAll(_, _)
ReleaseAll(env, slots) ==
    IF slots = <<>> THEN env ELSE ReleaseAll(Py_DECREF(env, Head(slots)), Tail(slots))

\* each item converted with to_object and its handle stored in the next slot
RECURSIVE FillSlots(_, _, _, _)
FillSlots(env, its, slots, p) ==
    IF its = <<>> THEN [env |-> env, ok |-> TRUE, slots |-> slots]
    ELSE LET r == to_object(env, "usize", Head(its), p, TRUE)
         IN  IF r.ok THEN FillSlots(r.env, Tail(its), Append(slots, r.h), p)
             ELSE [env |-> ReleaseAll(r.env, slots), ok |-> FALSE, slots |-> <<>>]

\* PyTuple::new: a tuple of exactly Len(its) slots, or the failure of the
\* allocation
PyTuple_new(env, its, p, ok) ==
    IF ok THEN FillSlots(env, its, <<>>, p)
    ELSE [env |-> env, ok |-> FALSE, slots |-> <<>>]

\* PyTuple::get_item: the borrowed handle in slot index, or IndexError
PyTuple_get_item(slots, index) ==
    IF index < Len(slots) THEN [ok |-> TRUE, h |-> slots[index + 1]]
    ELSE [ok |-> FALSE, h |-> NULL]

\* let tuple = PyTuple::new(py, items)
TupleNew(its, ok) ==
    /\ ~tuple.built
    /\ LET r == PyTuple_new(Env(heap, pending), its, platform, ok)
       IN  /\ heap' = r.env.heap
           /\ pending' = r.env.pending
           /\ tuple' = [built |-> r.ok, slots |-> r.slots]
           /\ items' = IF r.ok THEN its ELSE <<>>
           /\ last' = LastRec("tuple_new", "usize", NULL, Len(its),
                              IF r.ok THEN Ok(Len(its)) ELSE Err("AllocationError", "panic"),
                              r.env, pending, "none", 0)
    /\ UNCHANGED <<platform, owned, cursor>>

\* tuple.get_item(i) followed, when it succeeds, by extract::<usize>()
TupleGetItem(i) ==
    /\ tuple.built
    /\ LET g == PyTuple_get_item(tuple.slots, i)
           r == extract(Env(heap, pending), g.h, "usize", platform, TRUE)
       IN  IF g.ok
           THEN /\ heap' = r.env.heap
                /\ pending' = r.env.pending
                /\ last' = LastRec("get_item", "usize", g.h, i, r.res, r.env, pending, "none", 0)
           ELSE /\ last' = LastRec("get_item", "usize", NULL, i, Err("IndexError", "tuple"),
                                   Env(<<>>, "none"), pending, "none", 0)
                /\ UNCHANGED <<heap, pending>>
    /\ UNCHANGED <<platform, owned, tuple, items, cursor>>

\* one turn of `for x in tuple`: the next item, extracted as u64
TupleIterNext ==
    /\ tuple.built
    /\ cursor < Len(tuple.slots)
    /\ LET h == tuple.slots[cursor + 1]
           r == extract(Env(heap, pending), h, "u64", platform, TRUE)
       IN  /\ heap' = r.env.heap
           /\ pending' = r.env.pending
           /\ last' = LastRec("iter_next", "u64", h, cursor, r.res, r.env, pending, "none", 0)
    /\ cursor' = cursor + 1
    /\ UNCHANGED <<platform, owned, tuple, items>>

\* the loop ends when the cursor has passed the last slot; the next loop
\* iterates afresh
TupleIterEnd ==
    /\ tuple.built
    /\ cursor >= Len(tuple.slots)
    /\ last' = LastRec("iter_end", "u64", NULL, cursor, Ok(cursor), Env(<<>>, "none"), pending, "none", 0)
    /\ cursor' = 0
    /\ UNCHANGED <<platform, heap, pending, owned, tuple, items>>

NextTuple ==
    \/ \E its \in SeqsUpTo(TupleItems(platform), MaxLen) : \E ok \in BOOLEAN : TupleNew(its, ok)
    \/ \E i \in 0 .. MaxLen : TupleGetItem(i)
    \/ TupleIterNext
    \/ TupleIterEnd

SpecTuple == Init /\ [][NextTuple]_vars

\* ------------------------------------------------------------- properties
IsExtract == last.op = "extract"

Constructors ==
    {"PyLong_FromLong", "PyLong_FromLongLong", "PyLong_FromUnsignedLongLong", "PyFloat_FromDouble"}

Accessors == {"PyLong_AsLong", "PyLong_AsLongLong", "PyLong_AsUnsignedLongLong", "PyFloat_AsDouble"}

\* the value an accessor returns to signal an error
SentinelOf(f, p) ==
    CASE f \in {"PyLong_AsLong", "PyLong_AsLongLong"} -> -1
      [] f = "PyLong_AsUnsignedLongLong" -> MaxOf("u64", p)
      [] f = "PyFloat_AsDouble" -> -2

LastCall == last.calls[Len(last.calls)]

\* C1: a native integer converted with to_object and extracted as the same
\* type comes back as Ok of the same value, for every integer type, every
\* value of the type and every build target.
RoundTrip ==
    (IsExtract /\ last.oT \in IntTypes /\ last.T = last.oT) => last.res = Ok(last.oV)

RoundTripWitness ==
    /\ IsExtract
    /\ platform = "ILP32"
    /\ last.oT = "u32"
    /\ last.T = "u32"
    /\ last.oV = MaxOf("u32", platform)
    /\ last.res = Ok(MaxOf("u32", platform))

\* C2: extracting an int object holding v as an integer type T gives Ok(v)
\* when v is in T's range and fails with OverflowError otherwise; never Ok of
\* another value.
RangeChecked ==
    (IsExtract /\ last.T \in IntTypes /\ heap[last.h].kind = "int") =>
        LET v == heap[last.h].val
        IN  IF InRange(v, last.T, platform)
            THEN last.res = Ok(v)
            ELSE ~last.res.ok /\ last.res.err = "OverflowError"

RangeCheckedWitness ==
    /\ IsExtract
    /\ last.T = "u64"
    /\ heap[last.h].kind = "int"
    /\ heap[last.h].val = MinOf("i64", platform)
    /\ ~last.res.ok
    /\ last.res.err = "OverflowError"

\* C4: when the accessor returns its error sentinel, the extraction returns
\* the fetched runtime error exactly when an error is pending at that point;
\* with none pending the sentinel is the value: Ok of it when the type holds it.
SentinelDisambiguation ==
    (IsExtract /\ Len(last.calls) > 0 /\ LastCall.f \in Accessors
        /\ LastCall.ret = SentinelOf(LastCall.f, platform)) =>
        /\ (last.res.src = "fetched") <=> (LastCall.err # "none")
        /\ LastCall.err # "none" => (~last.res.ok /\ last.res.err = LastCall.err)
        /\ (LastCall.err = "none"
              /\ (last.T \in IntTypes => InRange(LastCall.ret, last.T, platform)))
             => last.res = Ok(LastCall.ret)

SentinelDisambiguationWitness ==
    /\ IsExtract
    /\ last.T = "u64"
    /\ LastCall.f = "PyLong_AsUnsignedLongLong"
    /\ LastCall.ret = MaxOf("u64", platform)
    /\ LastCall.err = "none"
    /\ last.res = Ok(MaxOf("u64", platform))

\* C5 as claimed: every extraction that returns Err has called PyErr::fetch
\* exactly once.
FetchExactlyOnce == (IsExtract /\ ~last.res.ok) => last.fetches = 1

\* C5 amended: an extraction that returns Err carrying a runtime error has
\* called PyErr::fetch exactly once; one that returns the OverflowError built
\* for a failed narrowing cast has not called it.
FetchOncePerRuntimeError ==
    (IsExtract /\ ~last.res.ok) =>
        \/ last.res.src = "fetched" /\ last.res.err # "none" /\ last.fetches = 1
        \/ last.res.src = "lazy" /\ last.res.err = "OverflowError" /\ last.fetches = 0

FetchOncePerRuntimeErrorWitness ==
    /\ IsExtract
    /\ last.T = "u8"
    /\ last.res = overflow_error
    /\ last.fetches = 0
    /\ heap[last.h].kind = "int"
    /\ heap[last.h].val = -1

\* C6: to_object calls its constructor once; a NULL it returns fails the
\* operation with no Owned Reference made; a handle it returns is wrapped
\* with the one reference the constructor gave.
ConstructorNull ==
    last.op = "to_object" =>
        /\ Len(last.calls) = 1
        /\ LastCall.f \in Constructors
        /\ NULL \notin owned
        /\ IF LastCall.ret = NULL
           THEN ~last.res.ok /\ last.res.err = "AllocationError" /\ last.h = NULL
                /\ \A h \in owned : heap[h].rc = 1
           ELSE last.res.ok /\ last.h = LastCall.ret /\ last.h \in owned /\ heap[last.h].rc = 1

ConstructorNullWitness ==
    /\ last.op = "to_object"
    /\ last.T = "u64"
    /\ LastCall.f = "PyLong_FromUnsignedLongLong"
    /\ LastCall.ret = NULL
    /\ last.res.err = "AllocationError"

\* the value the pairs of C7 expect, as a set: empty when the claim is silent
CrossExpected ==
    IF last.oT = "f64" /\ last.T \in {"i32", "u32", "i64", "u64"} /\ IsIntegral(last.oV)
          /\ InRange(last.oV \div 2, last.T, platform)
    THEN {last.oV \div 2}
    ELSE IF last.oT = "i32" /\ last.T = "f64" THEN {2 * last.oV} ELSE {}

ExplicitOf(T, p) ==
    IF T \notin IntTypes THEN "none"
    ELSE IF Strategy(T, p) = "explicit" THEN T
    ELSE IF Strategy(T, p) = "larger" /\ Strategy(LargerType(T), p) = "explicit" THEN LargerType(T)
    ELSE "none"

AccessorOf(T) == IF T = "i64" THEN "PyLong_AsLongLong" ELSE "PyLong_AsUnsignedLongLong"

\* C9: on the explicit 64-bit path an int object is read directly; any other
\* object is coerced first and the accessor is applied to the coerced object,
\* never to the original; a NULL coercion ends the extraction with the
\* fetched error and no accessor call.
CoercionOrder ==
    (IsExtract /\ ExplicitOf(last.T, platform) # "none") =>
        LET E == ExplicitOf(last.T, platform)
            cs == last.calls
        IN  IF heap[last.h].kind = "int"
            THEN Len(cs) = 1 /\ cs[1].f = AccessorOf(E) /\ cs[1].h = last.h
            ELSE /\ cs[1].f = "PyNumber_Long"
                 /\ cs[1].h = last.h
                 /\ IF cs[1].ret = NULL
                    THEN Len(cs) = 1 /\ last.res = Err(cs[1].err, "fetched")
                    ELSE /\ Len(cs) = 2
                         /\ cs[2].f = AccessorOf(E)
                         /\ cs[2].h = cs[1].ret
                         /\ cs[2].h # last.h

CoercionOrderWitness ==
    /\ IsExtract
    /\ last.T = "isize"
    /\ heap[last.h].kind = "float"
    /\ Len(last.calls) = 2
    /\ last.calls[2].f = "PyLong_AsLongLong"
    /\ last.calls[2].h = last.calls[1].ret
    /\ last.res.ok

\* C10: an extraction that starts with no error pending returns with no
\* error pending, whether it returns Ok or Err.
ErrorHygiene == (IsExtract /\ last.pend0 = "none") => pending = "none"

ErrorHygieneWitness ==
    /\ IsExtract
    /\ last.T = "f32"
    /\ last.pend0 = "none"
    /\ last.res = Err("TypeError", "fetched")
    /\ pending = "none"

\* C8: a tuple built from N items has N slots; get_item(i) for i < N extracts
\* the i-th item, get_item(i) for i >= N fails with IndexError, and an
\* iteration yields the items in index order and ends after exactly N.
TupleSequence ==
    /\ tuple.built => Len(tuple.slots) = Len(items)
    /\ last.op = "get_item" =>
          IF last.arg < Len(items)
          THEN last.res = Ok(items[last.arg + 1])
          ELSE ~last.res.ok /\ last.res.err = "IndexError"
    /\ last.op = "iter_next" => (last.arg < Len(items) /\ last.res = Ok(items[last.arg + 1]))
    /\ last.op = "iter_end" => last.arg = Len(items)

TupleSequenceWitness ==
    /\ last.op = "get_item"
    /\ Len(items) = MaxLen
    /\ last.arg = MaxLen - 1
    /\ items[MaxLen] = MaxOf("usize", platform)
    /\ last.res = Ok(MaxOf("usize", platform))

\* C3: once every Owned Reference is released, no object this core asked the
\* runtime for is still alive, and every object the interpreter lent has the
\* reference count it was lent with.
OwnershipBaseline ==
    owned = {} => \A h \in Handles : Live(heap, h) => (heap[h].by = "foreign" /\ heap[h].rc = 1)
====
